---- MODULE Spec2Model ----
(***************************************************************************)
(* Transform kernels and hex codec of the zkp-benchmark image converters.  *)
(*                                                                         *)
(* Two families of scripts turn a decoded image into a JSON witness:       *)
(*   - src/veritas/benchmark/*: kernels on numpy buffers, raw nested-array *)
(*     output (apply_blur, resize_image_bilinear, rgb_to_grayscale);       *)
(*   - src/vimz/image_converter/*: kernels followed by compress(), which   *)
(*     packs ten pixels per hexadecimal word (conv2d, brightness,          *)
(*     contrast, resize_image).                                            *)
(*                                                                         *)
(* A pixel buffer is a record [height, width, depth, px] with px[i][j] the *)
(* cell of row i, column j (0-based as in the code): an integer when       *)
(* depth = 1, a triple <<c0, c1, c2>> when depth = 3.                       *)
(***************************************************************************)
EXTENDS Integers, Sequences, FiniteSets, TLC

VARIABLES
    image,   \* the decoded input buffer (image_np)
    pc,      \* "loaded": decoded, nothing applied; "done": kernel returned;
             \* "failed": the kernel raised
    op,      \* the kernel that was applied ("none" before)
    arg,     \* the parameters the kernel was called with
    out,     \* the buffer the kernel produced (NoBuffer before, or on a raise)
    words,   \* the rows of hex words compress() returned (<<>> when unused)
    stored,  \* the cells apply_blur's loops have stored so far
    script,  \* the script whose main() is running ("none": no run is modelled)
    steps,   \* the statements of main() completed so far, in order
    shape,   \* image_np.shape once the image is loaded
    params,  \* the parsed command line (args)
    envelope,\* the `output` dict once it is built (its scalar fields in a run
             \* that keeps the shape of the image only)
    file,    \* the output file: "unopened", "open" (created or truncated, not
             \* yet complete) or "written"
    exit     \* the exit status of the process (Running until it ends)

kernelvars == <<image, pc, op, arg, out, words, stored>>
runvars == <<script, steps, shape, params, envelope, file, exit>>
vars == <<image, pc, op, arg, out, words, stored,
          script, steps, shape, params, envelope, file, exit>>

-----------------------------------------------------------------------------
(* Bounds of the model and the input family.                               *)

MaxH == 4          \* kernel inputs: heights 1..MaxH
MaxW == 4          \* kernel inputs: widths 1..MaxW
MaxCodecH == 2     \* codec inputs: heights 1..MaxCodecH
MaxCodecW == 21    \* codec inputs: widths 1..MaxCodecW (two full groups + 1)
MaxSeed == 3       \* first palette entry used by an input
MaxStride == 2     \* palette step between neighbouring cells (0: uniform)
MaxRegion == 2     \* blur_region components range over 0..MaxRegion
MaxNewH == 4       \* resize targets: heights 1..MaxNewH
MaxNewW == 4       \* resize targets: widths 1..MaxNewW
MaxFactorNum == 12 \* factors are n/4 for n in -MaxFactorNum..MaxFactorNum
MaxCropOffset == 2 \* crop_x and crop_y range over 0..MaxCropOffset
MaxCropSize == 2   \* explicit crop_width and crop_height: 0..MaxCropSize

\* Sample values a cell can hold: extremes, the contrast anchor, values below
\* and above one hex digit.
GrayPalette == <<0, 255, 128, 7, 200, 16, 100, 1, 254, 15, 64>>

RGBPalette ==
    << <<255, 0, 0>>, <<0, 255, 0>>, <<0, 0, 255>>, <<128, 128, 128>>,
       <<0, 0, 0>>, <<255, 255, 255>>, <<1, 2, 3>>, <<16, 32, 48>>,
       <<200, 100, 50>>, <<15, 240, 9>>, <<0, 128, 2>> >>

PaletteAt(depth, n) ==
    IF depth = 1 THEN GrayPalette[(n % Len(GrayPalette)) + 1]
                 ELSE RGBPalette[(n % Len(RGBPalette)) + 1]

\* The h x w buffer whose cells walk the palette from `seed` in steps of
\* `stride`, row-major.
MakeImage(h, w, depth, seed, stride) ==
    [height |-> h, width |-> w, depth |-> depth,
     px |-> [i \in 0..(h - 1) |->
               [j \in 0..(w - 1) |->
                  PaletteAt(depth, seed + stride * (i * w + j))]]]

ImagesUpTo(maxh, maxw, depth) ==
    { MakeImage(h, w, depth, seed, stride) :
        h \in 1..maxh, w \in 1..maxw,
        seed \in 0..MaxSeed, stride \in 0..MaxStride }

\* The inputs of the kernels and of the codec, grayscale (depth 1) or RGB.
KernelImages(depth) == ImagesUpTo(MaxH, MaxW, depth)
CodecImages(depth) == ImagesUpTo(MaxCodecH, MaxCodecW, depth)

NoBuffer == [height |-> 0, width |-> 0, depth |-> 0, px |-> <<>>]
NoArg == [none |-> TRUE]

\* The values the variables of a run hold while only a kernel is modelled.
Running == 0 - 1
NoShape == <<>>
NoEnvelope == [none |-> TRUE]
NoRun ==
    /\ script = "none"
    /\ steps = <<>>
    /\ shape = NoShape
    /\ params = NoArg
    /\ envelope = NoEnvelope
    /\ file = "unopened"
    /\ exit = Running

-----------------------------------------------------------------------------
(* Python and numpy arithmetic used by the kernels.                        *)

Min(a, b) == IF a < b THEN a ELSE b
Max(a, b) == IF a > b THEN a ELSE b

\* Python 3 round(n / d) for n >= 0, d > 0: to nearest, ties to even.
PyRound(n, d) ==
    LET q == n \div d
        r == n % d
    IN  IF 2 * r < d THEN q
        ELSE IF 2 * r > d THEN q + 1
        ELSE IF q % 2 = 0 THEN q ELSE q + 1

\* A Python/numpy index: a negative index counts from the end.
PyIndex(k, n) == IF k < 0 THEN k + n ELSE k

\* max(0, min(255, v))
Clamp255(v) == Max(0, Min(255, v))

\* A store into a numpy uint8 cell.
U8(v) == v % 256

\* uint32 arithmetic reduces modulo 2^32. The operands here are non-negative
\* and at most 255000, below 2^31 (the largest integer TLC holds), so the
\* reduction never applies and is written as the value itself.
U32(v) == v

\* numpy's scalar promotion differs between builds. "value_based" (NumPy 1.x):
\* uint8 scalar (op) Python int is computed in int64. "nep50" (NumPy 2.x): the
\* Python int is cast to uint8 and the result wraps modulo 2^8.
Promotions == {"value_based", "nep50"}

ScalarMul(prom, a, k) == IF prom = "nep50" THEN U8(a * k) ELSE a * k
ScalarAdd(prom, a, b) == IF prom = "nep50" THEN U8(a + b) ELSE a + b

-----------------------------------------------------------------------------
(* src/veritas/benchmark/blur/blur.py                                      *)

\* blur_region is None (written <<>>) or a tuple
\* <<start_row, start_col, height, width>>.
None == <<>>

BlurRegions ==
    {None} \cup
    { <<sr, sc, bh, bw>> : sr \in 0..MaxRegion, sc \in 0..MaxRegion,
                           bh \in 0..MaxRegion, bw \in 0..MaxRegion }

\* BlurBounds with the default region starting at row 0, column 0 instead of
\* 1, 1 (line 37).
BlurBoundsFromZero(img, blur_region) ==
    IF blur_region # None
    THEN [start_row |-> blur_region[1], start_col |-> blur_region[2],
          end_row |-> Min(blur_region[1] + blur_region[3], img.height - 1),
          end_col |-> Min(blur_region[2] + blur_region[4], img.width - 1)]
    ELSE [start_row |-> 0, start_col |-> 0,
          end_row |-> img.height - 1, end_col |-> img.width - 1]

\* Lines 31-38: the half-open ranges the two loops run over.
BlurBounds(img, blur_region) ==
    IF blur_region # None
    THEN [start_row |-> blur_region[1], start_col |-> blur_region[2],
          end_row |-> Min(blur_region[1] + blur_region[3], img.height - 1),
          end_col |-> Min(blur_region[2] + blur_region[4], img.width - 1)]
    ELSE [start_row |-> 1, start_col |-> 1,
          end_row |-> img.height - 1, end_col |-> img.width - 1]

\* image_array[r][c] with Python's negative-index rule.
BlurRead(img, r, c) ==
    img.px[PyIndex(r, img.height)][PyIndex(c, img.width)]

\* Lines 49-51: the nine reads of the input buffer, summed as Python ints.
BlurSum(img, i, j) ==
    BlurRead(img, i - 1, j - 1) + BlurRead(img, i - 1, j) + BlurRead(img, i - 1, j + 1) +
    BlurRead(img, i, j - 1)     + BlurRead(img, i, j)     + BlurRead(img, i, j + 1) +
    BlurRead(img, i + 1, j - 1) + BlurRead(img, i + 1, j) + BlurRead(img, i + 1, j + 1)

\* Lines 54-55: round(sum / 9.0) stored into the uint8 cell, then clamped.
BlurCell(img, i, j) == Clamp255(U8(PyRound(BlurSum(img, i, j), 9)))

\* apply_blur: the output starts as a copy of the input (line 41); the loops
\* (lines 44-55) overwrite the cells of the region, each from the input alone.
apply_blur(img, blur_region) ==
    LET b == BlurBounds(img, blur_region)
    IN  [img EXCEPT !.px =
            [i \in 0..(img.height - 1) |->
               [j \in 0..(img.width - 1) |->
                  IF /\ b.start_row <= i /\ i < b.end_row
                     /\ b.start_col <= j /\ j < b.end_col
                  THEN BlurCell(img, i, j)
                  ELSE img.px[i][j]]]]

\* The two buffers apply_blur works on, and the loops of lines 44-55 run
\* store by store. Line 41 binds `blurred` to a copy of image_array, so a
\* store into `blurred` (lines 54-55) leaves image_array alone.
BlurStoreBufferAliased == "image_array"

BlurStoreBuffer == "blurred"

\* Lines 44-45: the cells the loops visit, in the order they visit them.
BlurCells(img, blur_region) ==
    LET b == BlurBounds(img, blur_region)
        rows == Max(0, b.end_row - b.start_row)
        cols == Max(0, b.end_col - b.start_col)
    IN  [n \in 1..(rows * cols) |->
           <<b.start_row + ((n - 1) \div cols), b.start_col + ((n - 1) % cols)>>]

\* BlurStore taking the nine reads of lines 49-51 from `blurred`, the buffer
\* lines 54-55 store into.
BlurStoreInPlace(heap, i, j) ==
    [heap EXCEPT !.blurred.px[i][j] = BlurCell(heap.blurred, i, j)]

\* Lines 49-55 for one cell: the sum is read from image_array, the result is
\* stored into the buffer `blurred` is bound to.
BlurStore(heap, i, j) ==
    LET v == BlurCell(heap.image_array, i, j)
    IN  IF BlurStoreBuffer = "blurred"
        THEN [heap EXCEPT !.blurred.px[i][j] = v]
        ELSE [image_array |-> [heap.image_array EXCEPT !.px[i][j] = v],
              blurred |-> [heap.image_array EXCEPT !.px[i][j] = v]]

RECURSIVE BlurLoop(_, _, _)
BlurLoop(heap, cells, n) ==
    IF n > Len(cells) THEN heap
    ELSE BlurLoop(BlurStore(heap, cells[n][1], cells[n][2]), cells, n + 1)

\* image_array and blurred when apply_blur returns.
apply_blur_buffers(img, blur_region) ==
    BlurLoop([image_array |-> img, blurred |-> img],
             BlurCells(img, blur_region), 1)

-----------------------------------------------------------------------------
(* src/veritas/benchmark/resize/resize.py                                  *)

\* Lines 39-40: int((extent - 1) * k / (new_extent - 1)), 0 for a target of 1.
ResizeLow(extent, new_extent, k) ==
    IF new_extent > 1 THEN ((extent - 1) * k) \div (new_extent - 1) ELSE 0

\* ResizeHigh as the next coordinate in every case: no test for an exact
\* division, no clamp (lines 42-43 as x_l + 1).
ResizeHighNext(extent, new_extent, k) == ResizeLow(extent, new_extent, k) + 1

\* Lines 42-43: the same coordinate when the division was exact, else the next
\* one, clamped to the last.
ResizeHigh(extent, new_extent, k) ==
    LET lo == ResizeLow(extent, new_extent, k)
    IN  IF lo * (new_extent - 1) = (extent - 1) * k
        THEN lo ELSE Min(lo + 1, extent - 1)

\* Lines 52-53: the remainder of (extent - 1) * k by (new_extent - 1).
ResizeRem(extent, new_extent, k) ==
    IF new_extent > 1
    THEN ((extent - 1) * k)
         - (new_extent - 1) * (((extent - 1) * k) \div (new_extent - 1))
    ELSE 0

\* Line 56.
ResizeDenom(new_height, new_width) ==
    IF new_width > 1 /\ new_height > 1
    THEN (new_width - 1) * (new_height - 1) ELSE 1

\* Lines 57-60: the corners are uint8 scalars, the weights Python ints; each
\* product and sum is evaluated left to right under the build's promotion.
ResizeSum(prom, a, b, c, d, xr, yr, new_height, new_width) ==
    LET wx == new_width - 1 - xr
        wy == new_height - 1 - yr
        ta == ScalarMul(prom, ScalarMul(prom, a, wx), wy)
        tb == ScalarMul(prom, ScalarMul(prom, b, xr), wy)
        tc == ScalarMul(prom, ScalarMul(prom, c, yr), wx)
        td == ScalarMul(prom, ScalarMul(prom, d, xr), yr)
    IN  ScalarAdd(prom, ScalarAdd(prom, ScalarAdd(prom, ta, tb), tc), td)

\* Lines 62-63: round(s / denom) when denom > 0, else the mean of the corners
\* (uint8 + uint8 wraps in every build); clamped and stored as uint8.
ResizeValue(prom, a, b, c, d, xr, yr, new_height, new_width) ==
    LET denom == ResizeDenom(new_height, new_width)
        s == ResizeSum(prom, a, b, c, d, xr, yr, new_height, new_width)
        new_val == IF denom > 0 THEN PyRound(s, denom)
                   ELSE PyRound(U8(U8(U8(a + b) + c) + d), 4)
    IN  U8(Clamp255(new_val))

\* Lines 39-63: one output cell.
ResizeCell(prom, img, new_height, new_width, i, j) ==
    LET x_l == ResizeLow(img.width, new_width, j)
        y_l == ResizeLow(img.height, new_height, i)
        x_h == ResizeHigh(img.width, new_width, j)
        y_h == ResizeHigh(img.height, new_height, i)
    IN  ResizeValue(prom, img.px[y_l][x_l], img.px[y_l][x_h],
                    img.px[y_h][x_l], img.px[y_h][x_h],
                    ResizeRem(img.width, new_width, j),
                    ResizeRem(img.height, new_height, i),
                    new_height, new_width)

\* Lines 46-49 index the buffer with the four coordinates; numpy raises
\* IndexError for a coordinate past the last row or column (the coordinates
\* are never negative).
ResizeIndexError(img, new_height, new_width) ==
    \/ \E i \in 0..(new_height - 1) :
          ResizeHigh(img.height, new_height, i) > img.height - 1
    \/ \E j \in 0..(new_width - 1) :
          ResizeHigh(img.width, new_width, j) > img.width - 1

\* Under "nep50" a Python int operand above 255 cannot be cast to uint8 and the
\* multiplication raises OverflowError; the first cell's weights are
\* new_width - 1 and new_height - 1.
ResizeRaises(prom, new_height, new_width) ==
    prom = "nep50" /\ (new_width - 1 > 255 \/ new_height - 1 > 255)

resize_image_bilinear(prom, img, new_height, new_width) ==
    [height |-> new_height, width |-> new_width, depth |-> 1,
     px |-> [i \in 0..(new_height - 1) |->
               [j \in 0..(new_width - 1) |->
                  ResizeCell(prom, img, new_height, new_width, i, j)]]]

-----------------------------------------------------------------------------
(* src/veritas/benchmark/grayscale/grayscale.py                            *)

\* GrayValue rounding to nearest instead of flooring (line 34, / for //).
GrayValueRounded(p) ==
    U8(PyRound(U32(U32(U32(299 * p[1]) + U32(587 * p[2])) + U32(114 * p[3])), 1000))

\* GrayValue with the channels left as uint8 (no astype(np.uint32) on line 34):
\* each product and sum wraps modulo 2^8.
GrayValueNarrow(p) ==
    U8(U8(U8(U8(299 * p[1]) + U8(587 * p[2])) + U8(114 * p[3])) \div 1000)

\* Line 34: 299*R + 587*G + 114*B in uint32, floor-divided by 1000; line 35
\* casts to uint8.
GrayValue(p) ==
    U8(U32(U32(U32(299 * p[1]) + U32(587 * p[2])) + U32(114 * p[3])) \div 1000)

\* rgb_to_grayscale: a 2-D buffer is returned as it is (lines 27-29).
rgb_to_grayscale(img) ==
    IF img.depth = 1 THEN img
    ELSE [height |-> img.height, width |-> img.width, depth |-> 1,
          px |-> [i \in 0..(img.height - 1) |->
                    [j \in 0..(img.width - 1) |-> GrayValue(img.px[i][j])]]]

-----------------------------------------------------------------------------
(* compress(): src/vimz/image_converter/*/*.py (the same function in each  *)
(* script; line numbers are those of blur/blur.py).                        *)
(* A hex string is a sequence of one-character strings.                    *)

HexChars == <<"0", "1", "2", "3", "4", "5", "6", "7",
              "8", "9", "a", "b", "c", "d", "e", "f">>

\* hex(n)[2:] for n >= 0: the digits of n in base 16, no leading zero.
RECURSIVE Hex(_)
Hex(n) ==
    IF n < 16 THEN <<HexChars[n + 1]>>
    ELSE Hex(n \div 16) \o <<HexChars[(n % 16) + 1]>>

\* ZFill that pads nothing (zfill left out of lines 27 and 31).
ZFillNone(s, width) == s

\* str.zfill(width): zeros on the left up to `width` characters; a longer
\* string is left as it is.
ZFill(s, width) ==
    IF Len(s) >= width THEN s
    ELSE [k \in 1..(width - Len(s)) |-> "0"] \o s

\* PrependPixel putting the digits behind the accumulator instead of in front.
PrependPixelAppend(hexValue, cell, depth) ==
    IF depth = 1
    THEN hexValue \o ZFill(Hex(cell), 6)
    ELSE LET h0 == hexValue \o ZFill(Hex(cell[1]), 2)
             h1 == h0 \o ZFill(Hex(cell[2]), 2)
         IN  h1 \o ZFill(Hex(cell[3]), 2)

\* PrependPixel taking the channels in the order k = 2, 1, 0 (line 30).
PrependPixelDescending(hexValue, cell, depth) ==
    IF depth = 1
    THEN ZFill(Hex(cell), 6) \o hexValue
    ELSE LET h0 == ZFill(Hex(cell[3]), 2) \o hexValue
             h1 == ZFill(Hex(cell[2]), 2) \o h0
         IN  ZFill(Hex(cell[1]), 2) \o h1

\* Lines 25-31: the digits of one cell are put in front of the accumulator; a
\* scalar cell as 6 digits, an RGB cell channel by channel (k = 0, 1, 2), each
\* as 2 digits put in front of what is there.
PrependPixel(hexValue, cell, depth) ==
    IF depth = 1
    THEN ZFill(Hex(cell), 6) \o hexValue
    ELSE LET h0 == ZFill(Hex(cell[1]), 2) \o hexValue
             h1 == ZFill(Hex(cell[2]), 2) \o h0
         IN  ZFill(Hex(cell[3]), 2) \o h1

\* Lines 24-34: the loop over the cells of one row from column j on. A word is
\* emitted and the accumulator emptied when j % 10 == 9; what is left in the
\* accumulator at the end of the row is returned beside the words.
RECURSIVE CompressRowFrom(_, _, _, _, _, _)
CompressRowFrom(cells, width, depth, j, hexValue, row) ==
    IF j >= width THEN [row |-> row, hexValue |-> hexValue]
    ELSE LET hv == PrependPixel(hexValue, cells[j], depth)
         IN  IF j % 10 = 9
             THEN CompressRowFrom(cells, width, depth, j + 1, <<>>,
                                  Append(row, <<"0", "x">> \o hv))
             ELSE CompressRowFrom(cells, width, depth, j + 1, hv, row)

\* compress with the accumulator emptied once, before the loop over the rows
\* (line 23 moved out of the loop): a row starts from what the row above left.
RECURSIVE CompressCarryRows(_, _, _)
CompressCarryRows(img, i, hexValue) ==
    IF i >= img.height THEN <<>>
    ELSE LET r == CompressRowFrom(img.px[i], img.width, img.depth, 0, hexValue, <<>>)
         IN  <<r.row>> \o CompressCarryRows(img, i + 1, r.hexValue)

compress_carry(img) == CompressCarryRows(img, 0, <<>>)

\* Lines 21-35: every row starts from an empty accumulator (line 23) and only
\* its words are kept (line 35).
compress(img) ==
    [i \in 1..img.height |->
        CompressRowFrom(img.px[i - 1], img.width, img.depth, 0, <<>>, <<>>).row]

-----------------------------------------------------------------------------
(* src/vimz/image_converter/blur/blur.py                                   *)

\* Lines 78-82.
OnesKernel == << <<1, 1, 1>>, <<1, 1, 1>>, <<1, 1, 1>> >>

\* The weights conv2d is called with: its default (line 39) and the blur's
\* (lines 87-89).
ConvWeights == {1, 9}

\* One channel of an RGB buffer (np.rollaxis, line 84), as a 2-D array.
Channel(img, k) ==
    [i \in 0..(img.height - 1) |->
        [j \in 0..(img.width - 1) |-> img.px[i][j][k + 1]]]

\* Extended with the border holding the nearest cell of the array instead of
\* zero (line 49).
ExtendedReplicated(array, h, w, border_size) ==
    [r \in 0..(h + 2 * border_size - 1) |->
        [c \in 0..(w + 2 * border_size - 1) |->
            array[Max(0, Min(h - 1, r - border_size))]
                 [Max(0, Min(w - 1, c - border_size))]]]

\* Lines 48-53: the array inside a border of zeros.
Extended(array, h, w, border_size) ==
    [r \in 0..(h + 2 * border_size - 1) |->
        [c \in 0..(w + 2 * border_size - 1) |->
            IF /\ border_size <= r /\ r < h + border_size
               /\ border_size <= c /\ c < w + border_size
            THEN array[r - border_size][c - border_size]
            ELSE 0]]

\* Lines 61-64: the sum over the kernel, entry t (row-major) onwards.
RECURSIVE ConvSum(_, _, _, _, _)
ConvSum(extended, kernel, i, j, t) ==
    LET kernel_width == Len(kernel[1])
        m == t \div kernel_width
        n == t % kernel_width
    IN  IF t >= Len(kernel) * kernel_width THEN 0
        ELSE extended[i + m][j + n] * kernel[m + 1][n + 1]
             + ConvSum(extended, kernel, i, j, t + 1)

\* ConvClamp without the upper branch of lines 66-67.
ConvClampNoUpper(v) == IF v < 0 THEN 0 ELSE v

\* Lines 66-69.
ConvClamp(v) == IF v > 255 THEN 255 ELSE IF v < 0 THEN 0 ELSE v

\* ConvCell with the division by the weight left out (line 65).
ConvCellNoWeight(extended, kernel, weight, i, j) ==
    ConvClamp(ConvSum(extended, kernel, i, j, 0))

\* Lines 65-69: floor division by the weight, then the clamp.
ConvCell(extended, kernel, weight, i, j) ==
    ConvClamp(ConvSum(extended, kernel, i, j, 0) \div weight)

\* conv2d(array, kernel, weight) on an h x w array.
conv2d(array, h, w, kernel, weight) ==
    LET extended == Extended(array, h, w, Len(kernel) \div 2)
    IN  [i \in 0..(h - 1) |->
           [j \in 0..(w - 1) |-> ConvCell(extended, kernel, weight, i, j)]]

\* Lines 84-91: the three channels convolved with weight 9 and stacked.
BlurAdjusted(img) ==
    LET r == conv2d(Channel(img, 0), img.height, img.width, OnesKernel, 9)
        g == conv2d(Channel(img, 1), img.height, img.width, OnesKernel, 9)
        b == conv2d(Channel(img, 2), img.height, img.width, OnesKernel, 9)
    IN  [img EXCEPT !.px =
            [i \in 0..(img.height - 1) |->
               [j \in 0..(img.width - 1) |-> <<r[i][j], g[i][j], b[i][j]>>]]]

\* blur_and_compress, lines 93-96.
blur_and_compress(img) == compress(BlurAdjusted(img))

-----------------------------------------------------------------------------
(* src/vimz/image_converter/brightness/brightness.py and                   *)
(* src/vimz/image_converter/contrast/contrast.py                           *)

\* A factor is the fraction num/den with den = 4: such floats, and their
\* products with the values used here, are exact in binary floating point.
Factors == { [num |-> n, den |-> 4] : n \in (0 - MaxFactorNum)..MaxFactorNum }

\* np.clip(x, 0, 255) of the fraction n/den, as a numerator over den.
ClipNum(n, den) == Max(0, Min(255 * den, n))

\* astype(np.uint8) of the fraction n/den >= 0: the fractional part is dropped.
TruncU8(n, den) == U8(n \div den)

\* BrightnessValue rounding the clipped product to nearest (half up) instead
\* of dropping its fractional part (line 50).
BrightnessValueRounded(v, f) ==
    U8((2 * ClipNum(v * f.num, f.den) + f.den) \div (2 * f.den))

\* brightness.py lines 44-50: value * factor, clipped, truncated.
BrightnessValue(v, f) == TruncU8(ClipNum(v * f.num, f.den), f.den)

\* contrast.py lines 46-48: the mean, int(128 * 1000).
ContrastMean == 128 * 1000

\* ContrastValue without the mean added back (lines 51-53).
ContrastValueNoAnchor(v, f) ==
    LET den == 1000 * f.den
        n == (1000 * v - ContrastMean) * f.num
    IN  TruncU8(ClipNum(n, den), den)

\* contrast.py lines 51-53: (v - mean/1000) * factor + mean/1000, clipped,
\* truncated; as a fraction over 1000 * den.
ContrastValue(v, f) ==
    LET den == 1000 * f.den
        n == (1000 * v - ContrastMean) * f.num + ContrastMean * f.den
    IN  TruncU8(ClipNum(n, den), den)

\* brightness.py lines 44-50: the array operations act on every channel value
\* of the buffer, 2-D or 3-D.
BrightnessAdjusted(img, f) ==
    [img EXCEPT !.px =
        [i \in 0..(img.height - 1) |->
           [j \in 0..(img.width - 1) |->
              IF img.depth = 1 THEN BrightnessValue(img.px[i][j], f)
              ELSE [k \in 1..3 |-> BrightnessValue(img.px[i][j][k], f)]]]]

\* contrast.py lines 43-56: the three channels adjusted and stacked.
ContrastAdjusted(img, f) ==
    [img EXCEPT !.px =
        [i \in 0..(img.height - 1) |->
           [j \in 0..(img.width - 1) |->
              [k \in 1..3 |-> ContrastValue(img.px[i][j][k], f)]]]]

\* brightness.py lines 52-55 and contrast.py lines 58-61.
adjust_brightness_and_compress(img, f) == compress(BrightnessAdjusted(img, f))
adjust_contrast_and_compress(img, f) == compress(ContrastAdjusted(img, f))

-----------------------------------------------------------------------------
(* src/vimz/image_converter/resize/resize.py                               *)

\* Lines 56-59 and 74-77: int(k * ratio) with ratio the float
\* extent / new_extent. The float product equals the exact quotient's floor
\* for every pair of extents below 30 (the first difference is extent 30,
\* new_extent 22, k = 11, where the product is 14.999...), for a source
\* extent of 720 with targets up to 11, and for the extents of the runs.
ResizeBLow(extent, new_extent, k) == (k * extent) \div new_extent

\* ResizeBHigh clamped to the last coordinate (min(x_l + 1, extent - 1), as
\* the other resize kernel computes it).
ResizeBHighClamped(extent, new_extent, k) ==
    Min(ResizeBLow(extent, new_extent, k) + 1, extent - 1)

\* Lines 57 and 59, 75 and 77: the next coordinate, never clamped.
ResizeBHigh(extent, new_extent, k) == ResizeBLow(extent, new_extent, k) + 1

\* Lines 61-64 and 79-82 index the source without a bounds check: numpy raises
\* IndexError when a high index is past the last row or column.
ResizeBRaises(img, new_height, new_width) ==
    \/ \E i \in 0..(new_height - 1) :
          ResizeBHigh(img.height, new_height, i) > img.height - 1
    \/ \E j \in 0..(new_width - 1) :
          ResizeBHigh(img.width, new_width, j) > img.width - 1

\* Binary64 arithmetic on the values lines 66-69 produce. A float is written
\* as the integer number of units of 2^-56 it holds, in three limbs of 22 bits,
\* least significant first; every value of lines 66-69 is below 2^10 and at
\* least 2^-2 or zero, so its 53 significant bits lie above the unit.
FLimb == 2^22

FOne == <<0, 0, 2^12>>

\* The conversion of an integer from 0 to 255 (a uint8 cell, a Python int).
FFromInt(n) == <<0, 0, n * 2^12>>

\* Carries propagated from the low limb up.
FNorm(x) ==
    LET m1 == x[2] + (x[1] \div FLimb)
    IN  <<x[1] % FLimb, m1 % FLimb, x[3] + (m1 \div FLimb)>>

\* The number of significant bits of a limb, and of a value.
FLimbBits(n) == CHOOSE k \in 0..30 : n < 2^k /\ (k = 0 \/ n >= 2^(k - 1))
FBits(x) ==
    IF x[3] > 0 THEN 44 + FLimbBits(x[3])
    ELSE IF x[2] > 0 THEN 22 + FLimbBits(x[2]) ELSE FLimbBits(x[1])

\* Round to nearest, ties to even, at 53 significant bits.
FRound(x) ==
    IF FBits(x) <= 53 THEN x
    ELSE LET p == 2^(FBits(x) - 53)
             r == x[1] % p
             odd == (x[1] \div p) % 2 = 1
             up == 2 * r > p \/ (2 * r = p /\ odd)
         IN  FNorm(<<x[1] - r + (IF up THEN p ELSE 0), x[2], x[3]>>)

\* x + y, x - y (x >= y) and n * x for an integer n from 0 to 255.
FAdd(x, y) == FRound(FNorm(<<x[1] + y[1], x[2] + y[2], x[3] + y[3]>>))
FSub(x, y) == FRound(FNorm(<<x[1] - y[1], x[2] - y[2], x[3] - y[3]>>))
FMul(n, x) == FRound(FNorm(<<n * x[1], n * x[2], n * x[3]>>))

\* x / n for a small integer n: long division; a remainder makes the last
\* unit odd, which keeps the rounding on the right side.
FDiv(x, n) ==
    LET q3 == x[3] \div n
        r3 == x[3] % n
        q2 == (r3 * FLimb + x[2]) \div n
        r2 == (r3 * FLimb + x[2]) % n
        q1 == (r2 * FLimb + x[1]) \div n
        r1 == (r2 * FLimb + x[1]) % n
    IN  FRound(<<IF r1 > 0 /\ q1 % 2 = 0 THEN q1 + 1 ELSE q1, q2, q3>>)

\* int(x / 2): halving is exact, the integer part is what lies above 2^57.
FHalfTrunc(x) == x[3] \div 2^13

\* Lines 66-67: 2/3 on an even output row, 1/3 on an odd one, as floats.
ResizeBWeight(i) == FDiv(FFromInt(IF i % 2 = 0 THEN 2 ELSE 1), 3)

\* Line 68, evaluated left to right.
ResizeBSumm(weight, a, b, c, d) ==
    FAdd(FAdd(FAdd(FMul(a, weight), FMul(b, weight)),
              FMul(c, FSub(FOne, weight))),
         FMul(d, FSub(FOne, weight)))

\* ResizeBValue with the two weights exchanged between even and odd rows.
ResizeBValueOddFirst(height, i, a, b, c, d) ==
    IF height = 720
    THEN U8(FHalfTrunc(ResizeBSumm(ResizeBWeight(i + 1), a, b, c, d)))
    ELSE U8((a + b + c + d) \div 4)

\* ResizeBValue rounding the quotient of lines 84-86 to nearest instead of
\* truncating it.
ResizeBValueRounded(height, i, a, b, c, d) ==
    IF height = 720
    THEN U8(FHalfTrunc(ResizeBSumm(ResizeBWeight(i), a, b, c, d)))
    ELSE U8(PyRound(a + b + c + d, 4))

\* Lines 66-69 (source height 720) and 84-86 (any other height): one channel
\* of one output cell, as the store into the uint8 buffer truncates it.
\* Lines 84-86 weigh every corner by the float 0.5 and halve the sum: exact in
\* binary floating point, floor((a + b + c + d) / 4).
\* Lines 66-69 use the floats nearest to 2/3 and 1/3, and every product and
\* sum is rounded: the result is one less than the exact fraction for some
\* corners (a = b = c = d = 77 on an even row: 76.99999999999999 -> 76).
ResizeBValue(height, i, a, b, c, d) ==
    IF height = 720
    THEN U8(FHalfTrunc(ResizeBSumm(ResizeBWeight(i), a, b, c, d)))
    ELSE U8((a + b + c + d) \div 4)

ResizeBCell(img, new_height, new_width, i, j) ==
    LET x_l == ResizeBLow(img.width, new_width, j)
        x_h == ResizeBHigh(img.width, new_width, j)
        y_l == ResizeBLow(img.height, new_height, i)
        y_h == ResizeBHigh(img.height, new_height, i)
        a == img.px[y_l][x_l]
        b == img.px[y_l][x_h]
        c == img.px[y_h][x_l]
        d == img.px[y_h][x_h]
    IN  [k \in 1..3 |-> ResizeBValue(img.height, i, a[k], b[k], c[k], d[k])]

resize_image(img, new_height, new_width) ==
    [height |-> new_height, width |-> new_width, depth |-> 3,
     px |-> [i \in 0..(new_height - 1) |->
               [j \in 0..(new_width - 1) |->
                  ResizeBCell(img, new_height, new_width, i, j)]]]

-----------------------------------------------------------------------------
(* src/veritas/benchmark/crop/crop.py                                      *)

\* Lines 34-39 (and vimz crop.py lines 55-60): resolution tag ->
\* (width, height).
sizes ==
    ("SD" :> <<640, 480>>) @@ ("HD" :> <<1280, 720>>) @@
    ("FHD" :> <<1920, 1080>>) @@ ("4K" :> <<3840, 2160>>)

\* crop_width and crop_height are optional integers: None (written <<>>) or
\* <<n>> for the integer n. Lines 41-46: a missing one is taken from the
\* table; axis 1 is the width, axis 2 the height.
CropRequested(crop_size, resolution, axis) ==
    IF crop_size = None THEN sizes[resolution][axis] ELSE crop_size[1]

\* Lines 49-50.
CropClamped(requested, extent, offset) == Min(requested, extent - offset)

\* A slice bound k on an axis of n entries, as Python resolves it.
SliceBound(k, n) == IF k < 0 THEN Max(k + n, 0) ELSE Min(k, n)

\* The first index and the number of entries of the slice start:stop.
SliceStart(start, n) == SliceBound(start, n)
SliceLen(start, stop, n) == Max(0, SliceBound(stop, n) - SliceBound(start, n))

\* CropCell reading from the top-left corner whatever the offsets are.
CropCellNoOffset(img, row0, col0, i, j) == img.px[i][j]

\* Line 53: entry (i, j) of image_array[crop_y:..., crop_x:...], the rows
\* starting at row0 and the columns at col0.
CropCell(img, row0, col0, i, j) == img.px[row0 + i][col0 + j]

\* Lines 41-53 along one axis: the number of entries of the slice
\* offset : offset + min(requested, extent - offset).
CropExtent(extent, offset, crop_size, resolution, axis) ==
    SliceLen(offset,
             offset + CropClamped(CropRequested(crop_size, resolution, axis),
                                  extent, offset),
             extent)

\* apply_crop, lines 31-55. The result is a view of image_array: nothing is
\* stored.
apply_crop(img, crop_x, crop_y, crop_width, crop_height, resolution) ==
    LET rows == CropExtent(img.height, crop_y, crop_height, resolution, 2)
        cols == CropExtent(img.width, crop_x, crop_width, resolution, 1)
        row0 == SliceStart(crop_y, img.height)
        col0 == SliceStart(crop_x, img.width)
    IN  [height |-> rows, width |-> cols, depth |-> img.depth,
         px |-> [i \in 0..(rows - 1) |->
                   [j \in 0..(cols - 1) |-> CropCell(img, row0, col0, i, j)]]]

\* The requests of the model: offsets from 0 to MaxCropOffset, sizes None or
\* from 0 to MaxCropSize; the tag only matters when a size is None.
CropSizes == {None} \cup { <<n>> : n \in 0..MaxCropSize }

CropRequests ==
    { [crop_x |-> x, crop_y |-> y, crop_width |-> cw, crop_height |-> ch,
       resolution |-> t] :
         x \in 0..MaxCropOffset, y \in 0..MaxCropOffset,
         cw \in CropSizes, ch \in CropSizes, t \in DOMAIN sizes }

-----------------------------------------------------------------------------
(* The kernels as steps of a run.                                          *)

Init ==
    /\ \E depth \in {1, 3} : image \in KernelImages(depth)
    /\ pc = "loaded"
    /\ op = "none"
    /\ arg = NoArg
    /\ out = NoBuffer
    /\ words = <<>>
    /\ stored = {}
    /\ NoRun

\* veritas blur main, lines 97-102: the image was converted to mode L.
VeritasBlur ==
    /\ pc = "loaded" /\ image.depth = 1
    /\ \E blur_region \in BlurRegions :
          /\ arg' = [blur_region |-> blur_region]
          /\ out' = apply_blur(image, blur_region)
          /\ image' = apply_blur_buffers(image, blur_region).image_array
    /\ op' = "veritas_blur"
    /\ pc' = "done"
    /\ UNCHANGED words
    /\ UNCHANGED stored
    /\ UNCHANGED runvars

\* veritas resize main, line 117.
VeritasResize ==
    /\ pc = "loaded" /\ image.depth = 1
    /\ \E prom \in Promotions, new_height \in 1..MaxNewH, new_width \in 1..MaxNewW :
          /\ arg' = [promotion |-> prom, new_height |-> new_height,
                     new_width |-> new_width]
          /\ IF \/ ResizeIndexError(image, new_height, new_width)
                \/ ResizeRaises(prom, new_height, new_width)
             THEN pc' = "failed" /\ out' = NoBuffer
             ELSE /\ pc' = "done"
                  /\ out' = resize_image_bilinear(prom, image, new_height, new_width)
    /\ op' = "veritas_resize"
    /\ UNCHANGED <<image, words>>
    /\ UNCHANGED stored
    /\ UNCHANGED runvars

\* veritas crop main, lines 95-96: the image was converted to mode L.
VeritasCrop ==
    /\ pc = "loaded" /\ image.depth = 1
    /\ \E r \in CropRequests :
          /\ r.crop_width # None /\ r.crop_height # None => r.resolution = "HD"
          /\ arg' = r
          /\ out' = apply_crop(image, r.crop_x, r.crop_y, r.crop_width,
                               r.crop_height, r.resolution)
    /\ op' = "veritas_crop"
    /\ pc' = "done"
    /\ UNCHANGED <<image, words>>
    /\ UNCHANGED stored
    /\ UNCHANGED runvars

\* veritas grayscale main, line 73.
VeritasGrayscale ==
    /\ pc = "loaded"
    /\ arg' = NoArg
    /\ out' = rgb_to_grayscale(image)
    /\ op' = "veritas_grayscale"
    /\ pc' = "done"
    /\ UNCHANGED <<image, words>>
    /\ UNCHANGED stored
    /\ UNCHANGED runvars

\* vimz blur main, line 130: blur_and_compress on the RGB buffer.
VimzBlur ==
    /\ pc = "loaded" /\ image.depth = 3
    /\ arg' = NoArg
    /\ out' = BlurAdjusted(image)
    /\ words' = blur_and_compress(image)
    /\ op' = "vimz_blur"
    /\ pc' = "done"
    /\ UNCHANGED image
    /\ UNCHANGED stored
    /\ UNCHANGED runvars

\* conv2d on one channel with the all-ones kernel and a weight it is called
\* or declared with.
VimzConv2d ==
    /\ pc = "loaded" /\ image.depth = 3
    /\ \E k \in 0..2, weight \in ConvWeights :
          /\ arg' = [channel |-> k, weight |-> weight]
          /\ out' = [height |-> image.height, width |-> image.width, depth |-> 1,
                     px |-> conv2d(Channel(image, k), image.height, image.width,
                                   OnesKernel, weight)]
    /\ op' = "vimz_conv2d"
    /\ pc' = "done"
    /\ UNCHANGED <<image, words>>
    /\ UNCHANGED stored
    /\ UNCHANGED runvars

\* vimz brightness main, line 86.
VimzBrightness ==
    /\ pc = "loaded"
    /\ \E f \in Factors :
          /\ arg' = [factor |-> f]
          /\ out' = BrightnessAdjusted(image, f)
          /\ words' = adjust_brightness_and_compress(image, f)
    /\ op' = "vimz_brightness"
    /\ pc' = "done"
    /\ UNCHANGED image
    /\ UNCHANGED stored
    /\ UNCHANGED runvars

\* vimz contrast main, line 92.
VimzContrast ==
    /\ pc = "loaded" /\ image.depth = 3
    /\ \E f \in Factors :
          /\ arg' = [factor |-> f]
          /\ out' = ContrastAdjusted(image, f)
          /\ words' = adjust_contrast_and_compress(image, f)
    /\ op' = "vimz_contrast"
    /\ pc' = "done"
    /\ UNCHANGED image
    /\ UNCHANGED stored
    /\ UNCHANGED runvars

\* vimz resize main, lines 136-137.
VimzResize ==
    /\ pc = "loaded" /\ image.depth = 3
    /\ \E new_height \in 1..MaxNewH, new_width \in 1..MaxNewW :
          /\ arg' = [new_height |-> new_height, new_width |-> new_width]
          /\ IF ResizeBRaises(image, new_height, new_width)
             THEN pc' = "failed" /\ out' = NoBuffer /\ words' = <<>>
             ELSE /\ pc' = "done"
                  /\ out' = resize_image(image, new_height, new_width)
                  /\ words' = compress(resize_image(image, new_height, new_width))
    /\ op' = "vimz_resize"
    /\ UNCHANGED image
    /\ UNCHANGED stored
    /\ UNCHANGED runvars

Next ==
    \/ VeritasBlur
    \/ VeritasResize
    \/ VeritasCrop
    \/ VeritasGrayscale
    \/ VimzBlur
    \/ VimzConv2d
    \/ VimzBrightness
    \/ VimzContrast
    \/ VimzResize

Spec == Init /\ [][Next]_vars

-----------------------------------------------------------------------------
(* resize_image on sources of the height its first branch is written for   *)
(* (resize.py line 52).                                                    *)

HDHeight == 720

HDImages ==
    { MakeImage(HDHeight, w, 3, seed, stride) :
        w \in 1..MaxW, seed \in 0..MaxSeed, stride \in 0..MaxStride }

InitHD ==
    /\ image \in HDImages
    /\ pc = "loaded"
    /\ op = "none"
    /\ arg = NoArg
    /\ out = NoBuffer
    /\ words = <<>>
    /\ stored = {}
    /\ NoRun

NextHD == VimzResize

SpecHD == InitHD /\ [][NextHD]_vars

-----------------------------------------------------------------------------
(* main() of the ten scripts as runs: load, transform, encode, write.      *)
(* A run follows the control flow of main(); it keeps the shape of the     *)
(* decoded image, which is all the control flow and the scalar envelope    *)
(* fields depend on, and leaves the cell values to the kernels above.      *)

Scripts ==
    {"veritas_blur", "veritas_crop", "veritas_grayscale", "veritas_resize",
     "vimz_blur", "vimz_brightness", "vimz_contrast", "vimz_crop",
     "vimz_grayscale", "vimz_resize"}

Veritas == {"veritas_blur", "veritas_crop", "veritas_grayscale", "veritas_resize"}

\* The statements of each main() in source order, up to the return:
\*   load             with Image.open(...): convert, np.array
\*   check            the comparison of the shape with the expected size
\*   encode_original  compress(image_np)
\*   transform        the kernel call
\*   encode           tolist() / compress() of the buffers
\*   output           the `output` dict
\*   mkdir            output_path.parent.mkdir
\*   open             open(args.output, 'w')
\*   dump             json.dump and the close of the file
\*   return           the closing prints and the end of main()
\* Program with the output file opened before anything else.
ProgramOpenFirst(s) ==
    IF s \in Veritas
    THEN <<"mkdir", "open", "load", "transform", "encode", "output", "dump",
           "return">>
    ELSE <<"open", "load", "encode_original", "transform", "output", "dump",
           "return">>

Program(s) ==
    CASE s \in Veritas ->
           <<"load", "transform", "encode", "output", "mkdir", "open", "dump",
             "return">>
      [] s \in {"vimz_blur", "vimz_brightness", "vimz_contrast"} ->
           <<"load", "encode_original", "transform", "output", "open", "dump",
             "return">>
      [] s = "vimz_crop" ->
           <<"load", "check", "encode_original", "output", "open", "dump",
             "return">>
      [] s = "vimz_grayscale" ->
           <<"load", "encode", "output", "open", "dump", "return">>
      [] s = "vimz_resize" ->
           <<"load", "check", "encode_original", "transform", "encode",
             "output", "open", "dump", "return">>

\* The statement a run executes next.
NextStep ==
    IF exit = Running /\ script \in Scripts /\ Len(steps) < Len(Program(script))
    THEN Program(script)[Len(steps) + 1] ELSE "none"

\* vimz resize.py lines 110-113: target tag -> (width, height).
to_sizes == ("SD" :> <<640, 480>>) @@ ("FHD" :> <<1920, 1080>>)

\* Shapes (height, width) of decoded images: the four tiers, the smallest
\* image an SD crop at (10, 3) fits in and one a row short of it, two small
\* images, and the smallest image an SD crop at (0, 4096) and one at (1, 0)
\* fit in.
RunShapes ==
    { <<1, 1>>, <<4, 5>>, <<480, 640>>, <<482, 650>>, <<483, 650>>,
      <<720, 1280>>, <<1080, 1920>>, <<2160, 3840>>, <<4576, 641>> }

\* Offsets and explicit sizes given on the command line of the crop scripts.
RunOffsetsX == {0, 1, 10}
RunOffsetsY == {0, 3, 4096}
RunCropSizes == {None, <<100>>}   \* optional integers, see apply_crop

\* Blur regions given on the command line of veritas blur.
RunRegions == {None, <<0, 0, 2, 2>>, <<1, 1, 2, 2>>}

\* The parsed arguments of each script (input and output paths apart).
ParamsOf(s) ==
    CASE s = "veritas_blur" ->
           { [resolution |-> "HD", blur_region |-> r] : r \in RunRegions }
      [] s = "veritas_crop" ->
           { [resolution |-> t, crop_x |-> x, crop_y |-> y,
              crop_width |-> cw, crop_height |-> ch] :
                t \in DOMAIN sizes, x \in RunOffsetsX, y \in RunOffsetsY,
                cw \in RunCropSizes, ch \in RunCropSizes }
      [] s = "veritas_grayscale" ->
           { [resolution |-> "HD", process_region |-> b,
              region_height |-> 240, region_width |-> 320] : b \in BOOLEAN }
      [] s = "veritas_resize" ->
           { [from_res |-> f, to_res |-> t] :
                f \in {"HD", "4K"}, t \in DOMAIN to_sizes }
      [] s = "vimz_blur" -> { [resolution |-> "HD"] }
      [] s \in {"vimz_brightness", "vimz_contrast"} ->
           { [resolution |-> "HD", factor |-> f] : f \in Factors }
      [] s = "vimz_crop" ->
           { [resolution |-> t, crop_x |-> x, crop_y |-> y] :
                t \in DOMAIN sizes, x \in RunOffsetsX, y \in RunOffsetsY }
      [] s = "vimz_grayscale" -> { NoArg }
      [] s = "vimz_resize" ->
           { [from_res |-> f, to_res |-> t] :
                f \in {"HD", "4K"}, t \in DOMAIN to_sizes }

\* np.array(image) has two axes for mode L and three for RGB. The veritas
\* scripts convert the image before decoding it (blur.py lines 88-89,
\* grayscale.py lines 66-67); the vimz scripts decode it as it is.
LoadedDepths(s) ==
    CASE s \in {"veritas_blur", "veritas_crop", "veritas_resize"} -> {1}
      [] s = "veritas_grayscale" -> {3}
      [] OTHER -> {1, 3}

\* vimz crop.py line 75.
CropTooSmall(shp, par) ==
    \/ shp.width < par.crop_x + sizes[par.resolution][1]
    \/ shp.height < par.crop_y + sizes[par.resolution][2]

\* The kernel call of the script raises an exception:
\*   veritas resize   OverflowError of a uint8 scalar times a Python int;
\*   vimz blur, contrast   np.rollaxis(...) unpacked into three channels
\*                    (blur.py line 84, contrast.py line 43);
\*   vimz resize      the shape unpacked into three (line 45), or IndexError.
TransformRaises(s, shp, par, prom) ==
    CASE s = "veritas_resize" ->
           ResizeRaises(prom, to_sizes[par.to_res][2], to_sizes[par.to_res][1])
      [] s \in {"vimz_blur", "vimz_contrast"} -> shp.depth # 3
      [] s = "vimz_resize" ->
           \/ shp.depth # 3
           \/ ResizeBRaises(shp, to_sizes[par.to_res][2], to_sizes[par.to_res][1])
      [] OTHER -> FALSE

\* int(x) for the float x = n / d, n / d being exact: truncation toward zero.
PyInt(n, d) == IF n >= 0 THEN n \div d ELSE 0 - ((0 - n) \div d)

\* brightness.py line 92, contrast.py line 98: int(args.factor * 10).
FactorField(f) == PyInt(f.num * 10, f.den)

\* CropInfo with crop_y left unshifted.
CropInfoUnshifted(crop_x, crop_y) == crop_x * 2^24 + crop_y

\* CropInfo with crop_y shifted like crop_x is not: both by 12 bits.
CropInfoSameShift(crop_x, crop_y) == crop_x * 2^12 + crop_y * 2^12

\* vimz crop.py line 83.
CropInfo(crop_x, crop_y) == crop_x * 2^24 + crop_y * 2^12

NoScalars == [none |-> FALSE]

\* The scalar fields of the `output` dict.
Envelope(s, shp, par) ==
    CASE s = "veritas_blur" ->
           [height |-> shp.height, width |-> shp.width,
            blur_region |-> par.blur_region, resolution |-> par.resolution]
      [] s = "veritas_crop" ->
           LET rows == CropExtent(shp.height, par.crop_y, par.crop_height,
                                  par.resolution, 2)
               cols == CropExtent(shp.width, par.crop_x, par.crop_width,
                                  par.resolution, 1)
           IN  [height |-> shp.height, width |-> shp.width,
                crop_x |-> par.crop_x, crop_y |-> par.crop_y,
                crop_width |-> IF rows > 0 THEN cols ELSE 0,
                crop_height |-> rows, resolution |-> par.resolution]
      [] s = "veritas_grayscale" ->
           [height |-> IF par.process_region
                       THEN Min(par.region_height, shp.height) ELSE shp.height,
            width |-> IF par.process_region
                      THEN Min(par.region_width, shp.width) ELSE shp.width,
            resolution |-> par.resolution]
      [] s = "veritas_resize" ->
           [original_height |-> shp.height, original_width |-> shp.width,
            resized_height |-> to_sizes[par.to_res][2],
            resized_width |-> to_sizes[par.to_res][1],
            from_resolution |-> par.from_res, to_resolution |-> par.to_res]
      [] s \in {"vimz_brightness", "vimz_contrast"} ->
           [factor |-> FactorField(par.factor)]
      [] s = "vimz_crop" -> [info |-> CropInfo(par.crop_x, par.crop_y)]
      [] OTHER -> NoScalars

InitRun ==
    /\ image = NoBuffer
    /\ pc = "none"
    /\ op = "none"
    /\ arg = NoArg
    /\ out = NoBuffer
    /\ words = <<>>
    /\ stored = {}
    /\ script \in Scripts
    /\ params \in ParamsOf(script)
    /\ steps = <<>>
    /\ shape = NoShape
    /\ envelope = NoEnvelope
    /\ file = "unopened"
    /\ exit = Running

\* The statement completes and main() goes on.
Completes(step) == steps' = Append(steps, step) /\ exit' = exit

\* The statement raises: the handler at the end of main() prints the error and
\* calls sys.exit(1).
Raises == steps' = steps /\ exit' = 1

RunLoad ==
    /\ NextStep = "load"
    /\ \/ /\ \E hw \in RunShapes, d \in LoadedDepths(script) :
               shape' = [height |-> hw[1], width |-> hw[2], depth |-> d]
          /\ Completes("load")
       \/ Raises /\ shape' = shape     \* the file is missing or undecodable
    /\ UNCHANGED <<script, params, envelope, file>>
    /\ UNCHANGED kernelvars

\* RunCheck never ending the run: the comparison only warns.
RunCheckWarns ==
    /\ NextStep = "check"
    /\ Completes("check")
    /\ UNCHANGED <<script, shape, params, envelope, file>>
    /\ UNCHANGED kernelvars

\* vimz crop.py lines 74-77: sys.exit(1) when the image is too small;
\* vimz resize.py lines 128-130: a warning only.
RunCheck ==
    /\ NextStep = "check"
    /\ IF script = "vimz_crop" /\ CropTooSmall(shape, params)
       THEN Raises ELSE Completes("check")
    /\ UNCHANGED <<script, shape, params, envelope, file>>
    /\ UNCHANGED kernelvars

RunEncodeOriginal ==
    /\ NextStep = "encode_original"
    /\ Completes("encode_original")
    /\ UNCHANGED <<script, shape, params, envelope, file>>
    /\ UNCHANGED kernelvars

RunTransform ==
    /\ NextStep = "transform"
    /\ \E prom \in Promotions :
          IF TransformRaises(script, shape, params, prom)
          THEN Raises ELSE Completes("transform")
    /\ UNCHANGED <<script, shape, params, envelope, file>>
    /\ UNCHANGED kernelvars

RunEncode ==
    /\ NextStep = "encode"
    /\ Completes("encode")
    /\ UNCHANGED <<script, shape, params, envelope, file>>
    /\ UNCHANGED kernelvars

RunOutput ==
    /\ NextStep = "output"
    /\ envelope' = Envelope(script, shape, params)
    /\ Completes("output")
    /\ UNCHANGED <<script, shape, params, file>>
    /\ UNCHANGED kernelvars

\* The parent directory cannot always be created.
RunMkdir ==
    /\ NextStep = "mkdir"
    /\ Completes("mkdir") \/ Raises
    /\ UNCHANGED <<script, shape, params, envelope, file>>
    /\ UNCHANGED kernelvars

\* open(..., 'w') creates or truncates the file, or raises.
RunOpen ==
    /\ NextStep = "open"
    /\ \/ Completes("open") /\ file' = "open"
       \/ Raises /\ file' = file
    /\ UNCHANGED <<script, shape, params, envelope>>
    /\ UNCHANGED kernelvars

\* json.dump writes the envelope and the with-block closes the file; a write
\* error leaves the file incomplete.
RunDump ==
    /\ NextStep = "dump"
    /\ \/ Completes("dump") /\ file' = "written"
       \/ Raises /\ file' = file
    /\ UNCHANGED <<script, shape, params, envelope>>
    /\ UNCHANGED kernelvars

\* main() returns and the interpreter exits with status 0.
RunReturn ==
    /\ NextStep = "return"
    /\ steps' = Append(steps, "return")
    /\ exit' = 0
    /\ UNCHANGED <<script, shape, params, envelope, file>>
    /\ UNCHANGED kernelvars

NextRun ==
    \/ RunLoad
    \/ RunCheck
    \/ RunEncodeOriginal
    \/ RunTransform
    \/ RunEncode
    \/ RunOutput
    \/ RunMkdir
    \/ RunOpen
    \/ RunDump
    \/ RunReturn

SpecRun == InitRun /\ [][NextRun]_vars

-----------------------------------------------------------------------------
(* The codec on its own: compress() applied to the decoded buffer, as every *)
(* vimz main does for "original" (blur.py line 121).                       *)

InitCodec ==
    /\ \E depth \in {1, 3} : image \in CodecImages(depth)
    /\ pc = "loaded"
    /\ op = "none"
    /\ arg = NoArg
    /\ out = NoBuffer
    /\ words = <<>>
    /\ stored = {}
    /\ NoRun

Compress ==
    /\ pc = "loaded"
    /\ words' = compress(image)
    /\ op' = "compress"
    /\ pc' = "done"
    /\ UNCHANGED <<image, arg, out>>
    /\ UNCHANGED stored
    /\ UNCHANGED runvars

NextCodec == Compress

SpecCodec == InitCodec /\ [][NextCodec]_vars

-----------------------------------------------------------------------------
(* apply_blur cell by cell: the body of its loops (blur.py lines 49-55) run  *)
(* once for every cell of the region, the cells taken in any order. The      *)
(* order of lines 44-45, row-major, is one of them.                          *)

MaxLoopH == 3       \* loop inputs: heights 1..MaxLoopH
MaxLoopW == 4       \* loop inputs: widths 1..MaxLoopW
MaxLoopRegion == 2  \* explicit regions: heights and widths 1..MaxLoopRegion

LoopImages == ImagesUpTo(MaxLoopH, MaxLoopW, 1)

\* blur_region: None, or a region starting on or next to the first row and
\* column.
LoopRegions ==
    {None} \cup
    { <<sr, sc, bh, bw>> : sr \in 0..1, sc \in 0..1,
                           bh \in 1..MaxLoopRegion, bw \in 1..MaxLoopRegion }

\* The cells lines 44-45 range over, as a set.
LoopCells ==
    LET cells == BlurCells(image, arg.blur_region)
    IN  { cells[n] : n \in 1..Len(cells) }

InitLoop ==
    /\ image \in LoopImages
    /\ pc = "loaded"
    /\ op = "none"
    /\ arg = NoArg
    /\ out = NoBuffer
    /\ words = <<>>
    /\ stored = {}
    /\ NoRun

\* Lines 27-41: the bounds are taken and `blurred` is bound to a copy of the
\* input.
BlurEnter ==
    /\ pc = "loaded"
    /\ \E blur_region \in LoopRegions : arg' = [blur_region |-> blur_region]
    /\ out' = image
    /\ op' = "veritas_blur"
    /\ pc' = "blurring"
    /\ UNCHANGED <<image, words, stored>>
    /\ UNCHANGED runvars

\* Lines 49-55 for one cell of the region not yet stored.
BlurStep ==
    /\ pc = "blurring"
    /\ \E c \in LoopCells \ stored :
          LET heap == BlurStore([image_array |-> image, blurred |-> out],
                                c[1], c[2])
          IN  /\ image' = heap.image_array
              /\ out' = heap.blurred
              /\ stored' = stored \cup {c}
    /\ UNCHANGED <<pc, op, arg, words>>
    /\ UNCHANGED runvars

\* Line 57: every cell of the region has been stored.
BlurReturn ==
    /\ pc = "blurring"
    /\ stored = LoopCells
    /\ pc' = "done"
    /\ UNCHANGED <<image, op, arg, out, words, stored>>
    /\ UNCHANGED runvars

NextLoop ==
    \/ BlurEnter
    \/ BlurStep
    \/ BlurReturn

SpecLoop == InitLoop /\ [][NextLoop]_vars

-----------------------------------------------------------------------------
(* main() of src/vimz/image_converter/blur/blur.py on a decoded RGB buffer, *)
(* from the encoding of the original to the `output` dict (lines 120-137).  *)

\* The word the padding rows are made of (line 127).
ZeroWord == <<"0", "x", "0", "0">>

\* compressed_zeros with one word per pixel of the row instead of one per ten
\* (line 126 without the division).
compressed_zeros_per_pixel(width) == << [k \in 1..width |-> ZeroWord] >>

\* Lines 125-127: a list of one row of width // 10 zero words.
compressed_zeros(width) == << [k \in 1..(width \div 10) |-> ZeroWord] >>

\* Lines 134-137.
BlurOutput(img) ==
    [original |-> compressed_zeros(img.width) \o compress(img)
                     \o compressed_zeros(img.width),
     transformed |-> blur_and_compress(img)]

InitBlurMain ==
    /\ image \in CodecImages(3)
    /\ pc = "loaded"
    /\ op = "none"
    /\ arg = NoArg
    /\ out = NoBuffer
    /\ words = <<>>
    /\ stored = {}
    /\ NoRun

\* Lines 120-137: compressed_original, compressed_zeros,
\* compressed_transformed and the dict built from them.
VimzBlurMain ==
    /\ pc = "loaded"
    /\ out' = BlurAdjusted(image)
    /\ words' = blur_and_compress(image)
    /\ envelope' = BlurOutput(image)
    /\ op' = "vimz_blur_main"
    /\ pc' = "done"
    /\ UNCHANGED <<image, arg, stored>>
    /\ UNCHANGED <<script, steps, shape, params, file, exit>>

NextBlurMain == VimzBlurMain

SpecBlurMain == InitBlurMain /\ [][NextBlurMain]_vars

-----------------------------------------------------------------------------
(* Properties of the kernels, checked under Spec.                          *)

\* Every channel value of a buffer.
BufferValues(buf) ==
    UNION { IF buf.depth = 1 THEN {buf.px[i][j]}
            ELSE {buf.px[i][j][1], buf.px[i][j][2], buf.px[i][j][3]} :
            i \in 0..(buf.height - 1), j \in 0..(buf.width - 1) }

\* C1: whatever kernel ran (veritas blur, resize, grayscale; vimz conv2d,
\* blur, brightness, contrast, resize) and whatever its parameters, every
\* pixel/channel value of the buffer it returned lies in [0, 255].
C1_ClampInvariant ==
    pc = "done" => \A v \in BufferValues(out) : 0 <= v /\ v <= 255

\* C1 witness: conv2d with weight 1 returned a cell whose 3x3 sum exceeds 255
\* and holds 255.
C1_Witness ==
    /\ pc = "done" /\ op = "vimz_conv2d" /\ arg.weight = 1
    /\ \E i \in 0..(image.height - 1), j \in 0..(image.width - 1) :
          /\ ConvSum(Extended(Channel(image, arg.channel), image.height,
                              image.width, 1), OnesKernel, i, j, 0) > 255
          /\ out.px[i][j] = 255

\* The border cells of an h x w buffer.
Border(h, w) ==
    { <<i, j>> \in (0..(h - 1)) \X (0..(w - 1)) :
        i = 0 \/ i = h - 1 \/ j = 0 \/ j = w - 1 }

\* C7: apply_blur with blur_region None leaves row 0, row H-1, column 0 and
\* column W-1 as they are in the input, for every image size (H < 3 or W < 3
\* included).
C7_BlurBorder ==
    (pc = "done" /\ op = "veritas_blur" /\ arg.blur_region = None)
    => \A c \in Border(image.height, image.width) :
          out.px[c[1]][c[2]] = image.px[c[1]][c[2]]

\* C7 witness: a blur with region None has changed an interior cell of an
\* image at least 3 x 3 (and left the border alone).
C7_Witness ==
    /\ pc = "done" /\ op = "veritas_blur" /\ arg.blur_region = None
    /\ image.height >= 3 /\ image.width >= 3
    /\ \E i \in 1..(image.height - 2), j \in 1..(image.width - 2) :
          out.px[i][j] # image.px[i][j]

\* The channel conv2d was applied to is uniform.
UniformChannel ==
    \A i \in 0..(image.height - 1), j \in 0..(image.width - 1) :
        image.px[i][j][arg.channel + 1] = image.px[0][0][arg.channel + 1]

\* How many of the coordinates k-1, k, k+1 lie in 0..extent-1.
Inside(k, extent) == Cardinality({k - 1, k, k + 1} \cap (0..(extent - 1)))

\* C8, as stated: conv2d with the all-ones kernel and weight 9 leaves every
\* pixel of a uniform channel unchanged, border pixels included.
C8_UniformUnchanged ==
    (pc = "done" /\ op = "vimz_conv2d" /\ arg.weight = 9 /\ UniformChannel)
    => \A i \in 0..(image.height - 1), j \in 0..(image.width - 1) :
          out.px[i][j] = image.px[i][j][arg.channel + 1]

\* C8, amended: on a uniform channel of value v every interior pixel is left
\* unchanged, and a border pixel becomes floor(n * v / 9), n being the number
\* of cells of its 3x3 neighbourhood that lie inside the image.
C8_UniformInterior ==
    (pc = "done" /\ op = "vimz_conv2d" /\ arg.weight = 9 /\ UniformChannel)
    => \A i \in 0..(image.height - 1), j \in 0..(image.width - 1) :
          out.px[i][j] =
             (Inside(i, image.height) * Inside(j, image.width)
                * image.px[0][0][arg.channel + 1]) \div 9

\* C8 witness: a uniform non-zero channel of an image at least 3 x 3 was
\* convolved with weight 9; its centre is unchanged and its corner is not.
C8_Witness ==
    /\ pc = "done" /\ op = "vimz_conv2d" /\ arg.weight = 9 /\ UniformChannel
    /\ image.height >= 3 /\ image.width >= 3
    /\ image.px[0][0][arg.channel + 1] > 0
    /\ out.px[1][1] = image.px[1][1][arg.channel + 1]
    /\ out.px[0][0] # image.px[0][0][arg.channel + 1]

\* The gray value rgb_to_grayscale returned for every input cell holding `p`
\* is `g`.
GrayMaps(p, g) ==
    \A i \in 0..(image.height - 1), j \in 0..(image.width - 1) :
        image.px[i][j] = p => out.px[i][j] = g

\* C9, as stated: rgb_to_grayscale maps (255,0,0) to 76, (0,255,0) to 146 and
\* (0,0,255) to 28.
C9_GrayscaleAsStated ==
    (pc = "done" /\ op = "veritas_grayscale" /\ image.depth = 3)
    => /\ GrayMaps(<<255, 0, 0>>, 76)
       /\ GrayMaps(<<0, 255, 0>>, 146)
       /\ GrayMaps(<<0, 0, 255>>, 28)

\* C9, amended: rgb_to_grayscale maps (255,0,0) to 76, (0,255,0) to 149
\* (floor(587*255/1000)) and (0,0,255) to 29 (floor(114*255/1000)).
C9_GrayscaleScenario ==
    (pc = "done" /\ op = "veritas_grayscale" /\ image.depth = 3)
    => /\ GrayMaps(<<255, 0, 0>>, 76)
       /\ GrayMaps(<<0, 255, 0>>, 149)
       /\ GrayMaps(<<0, 0, 255>>, 29)

\* C9 witness: an image holding the three pixels was converted.
C9_Witness ==
    /\ pc = "done" /\ op = "veritas_grayscale" /\ image.depth = 3
    /\ image.width >= 3
    /\ image.px[0][0] = <<255, 0, 0>> /\ out.px[0][0] = 76
    /\ image.px[0][1] = <<0, 255, 0>>
    /\ image.px[0][2] = <<0, 0, 255>>

\* C10: under the contrast kernel a channel value of 128 stays 128 for every
\* factor, and a channel value of 0 with factor 2.0 gives 0.
C10_ContrastScenario ==
    (pc = "done" /\ op = "vimz_contrast")
    => \A i \in 0..(image.height - 1), j \in 0..(image.width - 1), k \in 1..3 :
          /\ image.px[i][j][k] = 128 => out.px[i][j][k] = 128
          /\ (image.px[i][j][k] = 0 /\ arg.factor.num = 2 * arg.factor.den)
                => out.px[i][j][k] = 0

\* C10 witness: contrast with factor 2.0 ran on an image holding a channel
\* value of 128 and one of 0.
C10_Witness ==
    /\ pc = "done" /\ op = "vimz_contrast"
    /\ arg.factor.num = 2 * arg.factor.den
    /\ {0, 128} \subseteq BufferValues(image)

\* C6, as stated: resize_image_bilinear(source, H, W) with H, W the extents of
\* the source reproduces the source cell for cell, for every H >= 1, W >= 1.
C6_ResizeIdentity ==
    (/\ pc = "done" /\ op = "veritas_resize"
     /\ arg.new_height = image.height /\ arg.new_width = image.width)
    => out.px = image.px

-----------------------------------------------------------------------------
(* Properties of compress(), checked under SpecCodec.                      *)

\* The value of a string of hex digits.
HexDigitValue(ch) == CHOOSE d \in 0..15 : HexChars[d + 1] = ch

RECURSIVE HexValue(_)
HexValue(digits) ==
    IF Len(digits) = 0 THEN 0
    ELSE 16 * HexValue(SubSeq(digits, 1, Len(digits) - 1))
         + HexDigitValue(digits[Len(digits)])

\* The c-th field of a word (c = 0: the six digits right after "0x", the most
\* significant ones; c = 9: the last six).
Field(word, c) == SubSeq(word, 3 + 6 * c, 8 + 6 * c)

\* The cell a field of six digits stands for: its value, or the three
\* channels from the last pair of digits to the first.
DecodeField(f, depth) ==
    IF depth = 1 THEN HexValue(f)
    ELSE <<HexValue(SubSeq(f, 5, 6)), HexValue(SubSeq(f, 3, 4)),
           HexValue(SubSeq(f, 1, 2))>>

\* The inverse of the packing: the ten cells of a word, first cell first, and
\* the cells of a row of words.
Unpack(word, depth) ==
    [n \in 1..10 |-> DecodeField(Field(word, 10 - n), depth)]

UnpackRow(rowWords, depth) ==
    [n \in 1..(10 * Len(rowWords)) |->
        Unpack(rowWords[((n - 1) \div 10) + 1], depth)[((n - 1) % 10) + 1]]

\* The cells of row i as a sequence.
RowCells(img, i) == [n \in 1..img.width |-> img.px[i][n - 1]]

\* The 1 x 10 buffer holding the g-th group of ten cells of row i.
Group(img, i, g) ==
    [height |-> 1, width |-> 10, depth |-> img.depth,
     px |-> [r \in {0} |-> [c \in 0..9 |-> img.px[i][10 * g + c]]]]

Compressed == pc = "done" /\ op = "compress"

\* C2: compress() treats each row on its own: a row of width 10k+r
\* (0 <= r < 10) yields exactly k words; word g of a row is the packing of
\* cells 10g..10g+9 of that row and of nothing else, so the last r cells are
\* in no word and no word holds cells of two rows.
C2_RowsPackedAlone ==
    Compressed
    => /\ Len(words) = image.height
       /\ \A i \in 1..image.height :
             /\ Len(words[i]) = image.width \div 10
             /\ \A g \in 1..Len(words[i]) :
                   words[i][g] = compress(Group(image, i - 1, g - 1))[1][1]

\* C2 witness: an image of two rows or more, each of width 10k+r with k >= 1
\* and r > 0 and not uniform, was packed.
C2_Witness ==
    /\ Compressed
    /\ image.height >= 2 /\ image.width > 10 /\ image.width % 10 > 0
    /\ image.px[0][image.width - 1] # image.px[1][0]
    /\ Len(words[2]) >= 1

\* C3: for a row whose width is a multiple of 10, unpacking the words
\* compress() made of it gives back the cells of the row, in order.
C3_RoundTrip ==
    (Compressed /\ image.width % 10 = 0)
    => \A i \in 1..image.height :
          /\ \A g \in 1..Len(words[i]) : Len(words[i][g]) = 62
          /\ UnpackRow(words[i], image.depth) = RowCells(image, i - 1)

\* C3 witness: a non-uniform row of 20 cells was packed into two words.
C3_Witness ==
    /\ Compressed /\ image.width = 20
    /\ Len(words[1]) = 2
    /\ image.px[0][0] # image.px[0][1]
    /\ image.px[0][0] # image.px[0][10]

\* C4, as stated: in each word the first cell of the group holds the most
\* significant digits and the tenth cell the least significant ones.
C4_FirstCellMostSignificant ==
    Compressed
    => \A i \in 1..image.height : \A g \in 1..Len(words[i]) :
          /\ DecodeField(Field(words[i][g], 0), image.depth)
                = image.px[i - 1][10 * (g - 1)]
          /\ DecodeField(Field(words[i][g], 9), image.depth)
                = image.px[i - 1][10 * (g - 1) + 9]

\* C4, amended: in each word the first cell of the group holds the least
\* significant digits and the tenth (group-closing) cell the most
\* significant ones.
C4_FirstCellLeastSignificant ==
    Compressed
    => \A i \in 1..image.height : \A g \in 1..Len(words[i]) :
          /\ Len(words[i][g]) = 62
          /\ DecodeField(Field(words[i][g], 9), image.depth)
                = image.px[i - 1][10 * (g - 1)]
          /\ DecodeField(Field(words[i][g], 0), image.depth)
                = image.px[i - 1][10 * (g - 1) + 9]

\* C4 witness: a group whose first and tenth cells differ was packed.
C4_Witness ==
    /\ Compressed /\ image.width >= 10
    /\ Len(words[1]) >= 1
    /\ image.px[0][0] # image.px[0][9]

\* The two hex digits of a channel value, and the six digits of a cell as
\* C5 lays them out.
TwoDigits(v) == <<HexChars[(v \div 16) + 1], HexChars[(v % 16) + 1]>>

CellDigits(cell, depth) ==
    IF depth = 1 THEN <<"0", "0", "0", "0">> \o TwoDigits(cell)
    ELSE TwoDigits(cell[3]) \o TwoDigits(cell[2]) \o TwoDigits(cell[1])

\* C5: every packed cell contributes exactly six digits to its word: a scalar
\* cell its value zero-padded to 6 hex digits, an RGB cell three 2-digit
\* segments, most significant first channel 2, channel 1, channel 0.
C5_CellEncoding ==
    Compressed
    => \A i \in 1..image.height : \A g \in 1..Len(words[i]) :
          /\ Len(words[i][g]) = 2 + 10 * 6
          /\ SubSeq(words[i][g], 1, 2) = <<"0", "x">>
          /\ \A c \in 0..9 :
                Field(words[i][g], 9 - c)
                   = CellDigits(image.px[i - 1][10 * (g - 1) + c], image.depth)

\* C5 witness: an RGB cell with a one-digit channel 0 that differs from its
\* channel 2 was packed.
C5_Witness ==
    /\ Compressed /\ image.depth = 3 /\ image.width >= 10
    /\ Len(words[1]) >= 1
    /\ \E c \in 0..9 :
          /\ image.px[0][c][1] < 16
          /\ image.px[0][c][1] # image.px[0][c][3]

-----------------------------------------------------------------------------
(* Properties of the kernels, checked under Spec (continued).              *)

\* The width and height apply_crop was asked for: the explicit one, or the
\* one of the resolution tag.
RequestedWidth == CropRequested(arg.crop_width, arg.resolution, 1)
RequestedHeight == CropRequested(arg.crop_height, arg.resolution, 2)

Cropped == pc = "done" /\ op = "veritas_crop"

\* C14: apply_crop with 0 <= crop_x <= W and 0 <= crop_y <= H returns a buffer
\* of width min(requested width, W - crop_x) and height min(requested height,
\* H - crop_y) whose cell (i, j) is source cell (crop_y + i, crop_x + j); a
\* request larger than what remains is shrunk and nothing is raised.
C14_CropClamps ==
    (/\ op = "veritas_crop"
     /\ arg.crop_x <= image.width /\ arg.crop_y <= image.height)
    => /\ pc = "done"
       /\ out.width = Min(RequestedWidth, image.width - arg.crop_x)
       /\ out.height = Min(RequestedHeight, image.height - arg.crop_y)
       /\ \A i \in 0..(out.height - 1), j \in 0..(out.width - 1) :
             out.px[i][j] = image.px[arg.crop_y + i][arg.crop_x + j]

\* C14 witness: a crop at a nonzero offset asked for more columns and rows
\* than remain and returned the remaining, non-empty rectangle.
C14_Witness ==
    /\ Cropped
    /\ arg.crop_x > 0 /\ arg.crop_y > 0
    /\ RequestedWidth > image.width - arg.crop_x
    /\ RequestedHeight > image.height - arg.crop_y
    /\ out.width = image.width - arg.crop_x /\ out.width > 1
    /\ out.height = image.height - arg.crop_y /\ out.height > 1

\* C16, as stated: whatever the buffer and the parameters (target extents of
\* 1, target extents equal to or larger than the source, blur regions at the
\* image edge), the kernel returns an output buffer: no call raises.
C16_KernelsNeverRaise == pc # "failed"

\* C17: no kernel stores into its input: across every kernel call the input
\* buffer keeps every cell.
C17_InputUnchanged == [][image' = image]_vars

\* C17 witness: apply_blur has stored a new value into a cell of its result,
\* and the same cell of the input holds the value it had.
C17_Witness ==
    /\ pc = "done" /\ op = "veritas_blur"
    /\ \E i \in 0..(image.height - 1), j \in 0..(image.width - 1) :
          /\ out.px[i][j] # image.px[i][j]
          /\ out.px[i][j] = BlurCell(image, i, j)

\* The four corner samples resize_image_bilinear takes for output cell (i, j).
ResizeCorners(i, j) ==
    LET x_l == ResizeLow(image.width, arg.new_width, j)
        y_l == ResizeLow(image.height, arg.new_height, i)
        x_h == ResizeHigh(image.width, arg.new_width, j)
        y_h == ResizeHigh(image.height, arg.new_height, i)
    IN  <<image.px[y_l][x_l], image.px[y_l][x_h],
          image.px[y_h][x_l], image.px[y_h][x_h]>>

\* C19, as stated: when new_width = 1 or new_height = 1 every output cell of
\* resize_image_bilinear is the mean of its four corner samples, rounded and
\* clamped.
C19_DegenerateMean ==
    (/\ pc = "done" /\ op = "veritas_resize"
     /\ (arg.new_width = 1 \/ arg.new_height = 1))
    => \A i \in 0..(out.height - 1), j \in 0..(out.width - 1) :
          LET s == ResizeCorners(i, j)
          IN  out.px[i][j] = Clamp255(PyRound(s[1] + s[2] + s[3] + s[4], 4))

\* The cells of the region <<start_row, start_col, height, width>>.
RegionCells(r) ==
    { <<i, j>> \in (0..(image.height - 1)) \X (0..(image.width - 1)) :
        /\ r[1] <= i /\ i < r[1] + r[3]
        /\ r[2] <= j /\ j < r[2] + r[4] }

\* C20, as stated: apply_blur with an explicit region, start_row = 0 and
\* start_col = 0 included, leaves every border cell and every cell outside
\* the region as it is in the input.
C20_RegionKeepsBorder ==
    (pc = "done" /\ op = "veritas_blur" /\ arg.blur_region # None)
    => \A i \in 0..(image.height - 1), j \in 0..(image.width - 1) :
          (\/ <<i, j>> \in Border(image.height, image.width)
           \/ <<i, j>> \notin RegionCells(arg.blur_region))
          => out.px[i][j] = image.px[i][j]

-----------------------------------------------------------------------------
(* Properties of the runs, checked under SpecRun.                          *)

\* The `output` dict of the script has been built.
Built(s) == script = s /\ "output" \in { steps[n] : n \in 1..Len(steps) }

\* The statements completed so far.
Completed == { steps[n] : n \in 1..Len(steps) }

\* C11, as stated: with crop_x = 10 and crop_y = 3 the hex-codec crop emits
\* info = 167,804,928.
C11_InfoAsStated ==
    (Built("vimz_crop") /\ params.crop_x = 10 /\ params.crop_y = 3)
    => envelope.info = 167804928

\* C11: with crop_x = 10 and crop_y = 3 the hex-codec crop emits
\* info = 10 * 2^24 + 3 * 2^12 = 167,772,160 + 12,288 = 167,784,448.
C11_InfoScenario ==
    (Built("vimz_crop") /\ params.crop_x = 10 /\ params.crop_y = 3)
    => /\ envelope.info = 10 * 2^24 + 3 * 2^12
       /\ envelope.info = 167772160 + 12288
       /\ envelope.info = 167784448

\* C11 witness: a hex-codec crop run with offsets (10, 3) passed the size
\* check and wrote its envelope.
C11_Witness ==
    /\ Built("vimz_crop") /\ params.crop_x = 10 /\ params.crop_y = 3
    /\ file = "written" /\ exit = 0

\* C13, as stated: the `factor` field of the brightness and contrast
\* envelopes is round(factor * 10), for every factor.
C13_FactorRounded ==
    (Built("vimz_brightness") \/ Built("vimz_contrast"))
    => envelope.factor = PyRound(params.factor.num * 10, params.factor.den)

\* The rows and columns the raw-array crop keeps when both sizes are the tier
\* defaults: what remains of the image past the offsets, at most the tier.
RemainingRows ==
    Max(0, Min(sizes[params.resolution][2], shape.height - params.crop_y))
RemainingCols ==
    Max(0, Min(sizes[params.resolution][1], shape.width - params.crop_x))

\* C15: on an image narrower than crop_x + tier width or shorter than
\* crop_y + tier height, the hex-codec crop stops with exit status 1 before it
\* encodes a buffer or opens the output file; the raw-array crop with the
\* tier sizes fails at none of load-to-envelope statements, reports the
\* clamped extents and exits 0 with the file written (it can only fail
\* creating the directory or writing the file).
C15_MismatchDivergence ==
    /\ (/\ script = "vimz_crop" /\ "load" \in Completed
        /\ CropTooSmall(shape, params))
       => /\ Completed = {"load"}
          /\ file = "unopened"
          /\ exit \in {Running, 1}
          /\ NextStep = "none" => exit = 1
    /\ (/\ script = "veritas_crop" /\ "load" \in Completed
        /\ params.crop_width = None /\ params.crop_height = None
        /\ CropTooSmall(shape, params))
       => /\ exit = 1 => "output" \in Completed
          /\ exit = 0 => file = "written"
          /\ "output" \in Completed
             => /\ envelope.crop_height = RemainingRows
                /\ envelope.crop_width =
                     IF RemainingRows > 0 THEN RemainingCols ELSE 0
                /\ envelope.crop_width <= shape.width
                /\ envelope.crop_height <= shape.height

\* C15 witness: a raw-array crop of an image smaller than the tier at the
\* offsets (10, 3) has written an envelope with both extents clamped to what
\* remains.
C15_Witness ==
    /\ script = "veritas_crop" /\ exit = 0 /\ file = "written"
    /\ params.crop_width = None /\ params.crop_height = None
    /\ params.crop_x = 10 /\ params.crop_y = 3
    /\ CropTooSmall(shape, params)
    /\ envelope.crop_width = shape.width - 10 /\ envelope.crop_width > 0
    /\ envelope.crop_height = shape.height - 3 /\ envelope.crop_height > 0
    /\ envelope.crop_width < sizes[params.resolution][1]
    /\ envelope.crop_height < sizes[params.resolution][2]

\* The hex-codec crop of the same image and offsets has stopped at the check.
C15_AbortReached ==
    /\ script = "vimz_crop" /\ exit = 1 /\ steps = <<"load">>
    /\ params.crop_x = 10 /\ params.crop_y = 3
    /\ CropTooSmall(shape, params)

\* The statements of a script that load, transform and encode.
Work(s) ==
    { Program(s)[n] : n \in 1..Len(Program(s)) } \cap
    {"load", "check", "encode_original", "transform", "encode", "output"}

\* C18: the output file is opened only after every loading, transforming and
\* encoding statement of the script has completed; a run whose image cannot
\* be loaded ends with a nonzero status and the file unopened; a run ends
\* with status 0 only with the file written.
C18_RunOrdering ==
    /\ file # "unopened" => Work(script) \subseteq Completed
    /\ ("load" \notin Completed /\ exit # Running)
       => (exit = 1 /\ file = "unopened")
    /\ exit = 0 => file = "written"

\* C18 witness: a vimz resize run has loaded, transformed, encoded, written
\* the file and ended with status 0.
C18_Witness ==
    /\ script = "vimz_resize" /\ exit = 0 /\ file = "written"
    /\ {"load", "transform", "encode", "open", "dump"} \subseteq Completed

-----------------------------------------------------------------------------
(* Properties of resize_image on a source of height 720, checked under     *)
(* SpecHD.                                                                 *)

\* The corner samples resize_image takes for channel k of output cell (i, j).
ResizeBCorners(i, j, k) ==
    LET x_l == ResizeBLow(image.width, arg.new_width, j)
        y_l == ResizeBLow(image.height, arg.new_height, i)
    IN  <<image.px[y_l][x_l][k], image.px[y_l][x_l + 1][k],
          image.px[y_l + 1][x_l][k], image.px[y_l + 1][x_l + 1][k]>>

\* C12, as stated: on a source of height 720 an output cell of an even row is
\* (a * 2/3 + b * 2/3 + c * 1/3 + d * 1/3) / 2 truncated to an integer, one of
\* an odd row (a * 1/3 + b * 1/3 + c * 2/3 + d * 2/3) / 2 truncated.
C12_RowWeights ==
    (pc = "done" /\ op = "vimz_resize" /\ image.height = 720)
    => \A i \in 0..(out.height - 1), j \in 0..(out.width - 1), k \in 1..3 :
          LET s == ResizeBCorners(i, j, k)
          IN  out.px[i][j][k] =
                IF i % 2 = 0
                THEN (2 * s[1] + 2 * s[2] + s[3] + s[4]) \div 6
                ELSE (s[1] + s[2] + 2 * s[3] + 2 * s[4]) \div 6

-----------------------------------------------------------------------------
(* Properties of apply_blur's loops, checked under SpecLoop.               *)

\* C21: whatever the order in which the cells of the region are processed,
\* every cell processed so far holds round(sum of the 3x3 neighbourhood of
\* the input / 9), every other cell holds its input value, and the buffer
\* returned is the one the row-major loops return.
C21_OrderIndependent ==
    (op = "veritas_blur")
    => /\ \A i \in 0..(image.height - 1), j \in 0..(image.width - 1) :
             out.px[i][j] = IF <<i, j>> \in stored
                            THEN PyRound(BlurSum(image, i, j), 9)
                            ELSE image.px[i][j]
       /\ pc = "done"
          => out = BlurLoop([image_array |-> image, blurred |-> image],
                            BlurCells(image, arg.blur_region), 1).blurred

\* C21 witness: the loops have returned after storing new values into two
\* cells next to each other, each of which lies in the other's neighbourhood.
C21_Witness ==
    /\ pc = "done" /\ op = "veritas_blur"
    /\ \E c \in stored, d \in stored :
          /\ c[1] = d[1] /\ d[2] = c[2] + 1
          /\ out.px[c[1]][c[2]] # image.px[c[1]][c[2]]
          /\ out.px[d[1]][d[2]] # image.px[d[1]][d[2]]

-----------------------------------------------------------------------------
(* Properties of the kernels, checked under Spec (second part).            *)

\* Channel k (1..3) of input cell (r, c), 0 for a position outside the image.
PaddedRead(k, r, c) ==
    IF 0 <= r /\ r < image.height /\ 0 <= c /\ c < image.width
    THEN image.px[r][c][k] ELSE 0

\* S: the sum of the 3x3 neighbourhood of (i, j) in channel k.
PaddedSum(k, i, j) ==
    PaddedRead(k, i - 1, j - 1) + PaddedRead(k, i - 1, j) + PaddedRead(k, i - 1, j + 1) +
    PaddedRead(k, i, j - 1)     + PaddedRead(k, i, j)     + PaddedRead(k, i, j + 1) +
    PaddedRead(k, i + 1, j - 1) + PaddedRead(k, i + 1, j) + PaddedRead(k, i + 1, j + 1)

\* C22: conv2d with the all-ones 3x3 kernel and weight 9, on one channel or,
\* in blur_and_compress, on all three: every output cell, border cells
\* included, is min(255, floor(S / 9)), S being the sum of the 3x3
\* neighbourhood of the input with positions outside the image counted as 0.
C22_ZeroPaddedFloor ==
    /\ (pc = "done" /\ op = "vimz_conv2d" /\ arg.weight = 9)
       => \A i \in 0..(image.height - 1), j \in 0..(image.width - 1) :
             out.px[i][j] = Min(255, PaddedSum(arg.channel + 1, i, j) \div 9)
    /\ (pc = "done" /\ op = "vimz_blur")
       => \A i \in 0..(image.height - 1), j \in 0..(image.width - 1), k \in 1..3 :
             out.px[i][j][k] = Min(255, PaddedSum(k, i, j) \div 9)

\* C22 witness: conv2d with weight 9 has recomputed a corner cell whose
\* neighbourhood lies partly outside the image and whose sum is no multiple
\* of 9; the cell no longer holds its input value.
C22_Witness ==
    /\ pc = "done" /\ op = "vimz_conv2d" /\ arg.weight = 9
    /\ image.height >= 2 /\ image.width >= 2
    /\ PaddedSum(arg.channel + 1, 0, 0) % 9 # 0
    /\ out.px[0][0] = PaddedSum(arg.channel + 1, 0, 0) \div 9
    /\ out.px[0][0] > 0
    /\ out.px[0][0] # image.px[0][0][arg.channel + 1]

\* C23: for every RGB pixel <<R, G, B>> rgb_to_grayscale returns
\* floor((299*R + 587*G + 114*B) / 1000): the weighted sum is the exact
\* integer (no term wraps at 8 bits) and nothing is rounded before the
\* floor-divide.
C23_GrayscaleFormula ==
    (pc = "done" /\ op = "veritas_grayscale" /\ image.depth = 3)
    => \A i \in 0..(image.height - 1), j \in 0..(image.width - 1) :
          LET p == image.px[i][j]
          IN  /\ 1000 * out.px[i][j] <= 299 * p[1] + 587 * p[2] + 114 * p[3]
              /\ 299 * p[1] + 587 * p[2] + 114 * p[3] < 1000 * (out.px[i][j] + 1)

\* C23 witness: a white pixel (weighted sum 255000, far above 2^8) was
\* converted to 255, and a pixel whose weighted sum leaves a remainder of at
\* least 500 was converted to the floor.
C23_Witness ==
    /\ pc = "done" /\ op = "veritas_grayscale" /\ image.depth = 3
    /\ \E i \in 0..(image.height - 1), j \in 0..(image.width - 1) :
          image.px[i][j] = <<255, 255, 255>> /\ out.px[i][j] = 255
    /\ \E i \in 0..(image.height - 1), j \in 0..(image.width - 1) :
          LET p == image.px[i][j]
          IN  (299 * p[1] + 587 * p[2] + 114 * p[3]) % 1000 >= 500

\* C24, as stated: on a source whose height is not 720 each corner has a net
\* weight of 1/8 in the output value: floor((a + b + c + d) / 8).
C24_EighthPerCorner ==
    (pc = "done" /\ op = "vimz_resize" /\ image.height # 720)
    => \A i \in 0..(out.height - 1), j \in 0..(out.width - 1), k \in 1..3 :
          LET s == ResizeBCorners(i, j, k)
          IN  /\ 8 * out.px[i][j][k] <= s[1] + s[2] + s[3] + s[4]
              /\ s[1] + s[2] + s[3] + s[4] < 8 * (out.px[i][j][k] + 1)

\* C24: on a source whose height is not 720 every corner is weighted by 1/2
\* and the sum is halved, a net weight of 1/4 per corner: the output value is
\* floor((a + b + c + d) / 4).
C24_QuarterPerCorner ==
    (pc = "done" /\ op = "vimz_resize" /\ image.height # 720)
    => \A i \in 0..(out.height - 1), j \in 0..(out.width - 1), k \in 1..3 :
          LET s == ResizeBCorners(i, j, k)
          IN  /\ 4 * out.px[i][j][k] <= s[1] + s[2] + s[3] + s[4]
              /\ s[1] + s[2] + s[3] + s[4] < 4 * (out.px[i][j][k] + 1)

\* C24 witness: a source of height other than 720 was resized, and an output
\* value is the truncated quarter of a corner sum that is no multiple of 4,
\* which is not the eighth of it.
C24_Witness ==
    /\ pc = "done" /\ op = "vimz_resize" /\ image.height # 720
    /\ \E i \in 0..(out.height - 1), j \in 0..(out.width - 1), k \in 1..3 :
          LET s == ResizeBCorners(i, j, k)
              t == s[1] + s[2] + s[3] + s[4]
          IN  /\ t % 4 >= 2
              /\ out.px[i][j][k] = t \div 4
              /\ out.px[i][j][k] # t \div 8

\* The pairs <<input value, output value>> over every channel of every cell.
ChannelPairs ==
    UNION { IF image.depth = 1 THEN { <<image.px[i][j], out.px[i][j]>> }
            ELSE { <<image.px[i][j][k], out.px[i][j][k]>> : k \in 1..3 } :
            i \in 0..(image.height - 1), j \in 0..(image.width - 1) }

-----------------------------------------------------------------------------
(* Properties of the blur envelope, checked under SpecBlurMain.            *)

\* The word holds the value zero.
IsZeroWord(word) ==
    /\ Len(word) > 2 /\ word[1] = "0" /\ word[2] = "x"
    /\ HexValue(SubSeq(word, 3, Len(word))) = 0

\* C26: for an H x W source the `original` field of the blur envelope has
\* H + 2 rows: the first and the last consist of floor(W / 10) zero words and
\* rows 2..H+1 are the packed rows of the source in order; `transformed` has
\* H rows; every row of both has floor(W / 10) words.
C26_BlurEnvelope ==
    (pc = "done" /\ op = "vimz_blur_main")
    => LET original == envelope.original
           transformed == envelope.transformed
           H == image.height
           n == image.width \div 10
       IN  /\ Len(original) = H + 2
           /\ \A r \in {1, H + 2} :
                 \A k \in 1..Len(original[r]) : IsZeroWord(original[r][k])
           /\ \A r \in 1..H :
                 /\ original[r + 1] = compress(image)[r]
                 /\ \A g \in 1..n, c \in 0..9 :
                       Unpack(original[r + 1][g], 3)[c + 1]
                          = image.px[r - 1][10 * (g - 1) + c]
           /\ Len(transformed) = H
           /\ \A r \in 1..(H + 2) : Len(original[r]) = n
           /\ \A r \in 1..H : Len(transformed[r]) = n

\* C26 witness: the envelope of a source of two rows whose width is above 10
\* and no multiple of 10 was built; its padding rows hold a word.
C26_Witness ==
    /\ pc = "done" /\ op = "vimz_blur_main"
    /\ image.height = 2 /\ image.width > 10 /\ image.width % 10 # 0
    /\ Len(envelope.original) = 4
    /\ Len(envelope.original[1]) = 1 /\ Len(envelope.original[4]) = 1
    /\ envelope.original[2] # envelope.original[1]

-----------------------------------------------------------------------------
(* Properties of the kernels, checked under Spec (third part).             *)

\* The weighted sum of resize_image_bilinear for output cell (i, j), as the
\* mathematical integer.
ExactWeightedSum(i, j) ==
    LET s == ResizeCorners(i, j)
        x_rem == ResizeRem(image.width, arg.new_width, j)
        y_rem == ResizeRem(image.height, arg.new_height, i)
        wx == arg.new_width - 1 - x_rem
        wy == arg.new_height - 1 - y_rem
    IN  s[1] * wx * wy + s[2] * x_rem * wy + s[3] * y_rem * wx
        + s[4] * x_rem * y_rem

\* C27, as stated: resize_image_bilinear forms the weighted sum s as the exact
\* integer, no product or partial sum reduced modulo 2^8, so every output
\* cell is round(s / denom) of the exact s, clamped to [0, 255].
C27_ExactWeightedSum ==
    (pc = "done" /\ op = "veritas_resize")
    => \A i \in 0..(out.height - 1), j \in 0..(out.width - 1) :
          out.px[i][j] =
             Clamp255(PyRound(ExactWeightedSum(i, j),
                              ResizeDenom(arg.new_height, arg.new_width)))

\* C28: for every source size, every target size (larger or smaller than the
\* source) and every output cell (i, j), the coordinates resize_image_bilinear
\* samples satisfy 0 <= y_l <= y_h <= H-1 and 0 <= x_l <= x_h <= W-1, with
\* x_h - x_l and y_h - y_l in {0, 1}; no read of lines 46-49 raises.
C28_IndexSafety ==
    (op = "veritas_resize")
    => /\ ~ResizeIndexError(image, arg.new_height, arg.new_width)
       /\ \A i \in 0..(arg.new_height - 1) :
             LET y_l == ResizeLow(image.height, arg.new_height, i)
                 y_h == ResizeHigh(image.height, arg.new_height, i)
             IN  /\ 0 <= y_l /\ y_l <= y_h /\ y_h <= image.height - 1
                 /\ y_h - y_l \in {0, 1}
       /\ \A j \in 0..(arg.new_width - 1) :
             LET x_l == ResizeLow(image.width, arg.new_width, j)
                 x_h == ResizeHigh(image.width, arg.new_width, j)
             IN  /\ 0 <= x_l /\ x_l <= x_h /\ x_h <= image.width - 1
                 /\ x_h - x_l \in {0, 1}

\* C28 witness: an upscale in one direction and a downscale in the other has
\* returned; its last output cell samples the last row and column twice, and
\* some cell samples two different rows.
C28_Witness ==
    /\ pc = "done" /\ op = "veritas_resize"
    /\ arg.new_height > image.height /\ image.height > 1
    /\ arg.new_width < image.width /\ arg.new_width > 1
    /\ ResizeLow(image.height, arg.new_height, arg.new_height - 1) = image.height - 1
    /\ ResizeHigh(image.height, arg.new_height, arg.new_height - 1) = image.height - 1
    /\ ResizeHigh(image.width, arg.new_width, arg.new_width - 1) = image.width - 1
    /\ \E i \in 0..(arg.new_height - 1) :
          ResizeHigh(image.height, arg.new_height, i)
             = ResizeLow(image.height, arg.new_height, i) + 1

\* Every high coordinate resize_image computes lies inside the source.
ResizeBInside ==
    /\ \A i \in 0..(arg.new_height - 1) :
          ResizeBHigh(image.height, arg.new_height, i) <= image.height - 1
    /\ \A j \in 0..(arg.new_width - 1) :
          ResizeBHigh(image.width, arg.new_width, j) <= image.width - 1

\* C29: the unclamped high coordinates of resize_image, x_h and y_h, stay
\* inside the source for every output cell exactly when the target is
\* strictly smaller than the source in both dimensions; with W' >= W or
\* H' >= H some cell reads outside the source (and the call raises).
C29_StrictDownscale ==
    (op = "vimz_resize")
    => /\ ResizeBInside
          <=> (arg.new_width < image.width /\ arg.new_height < image.height)
       /\ pc = "done" <=> ResizeBInside
       /\ pc = "failed" <=> ~ResizeBInside

\* C29 witness: a resize to the width of the source and a smaller height has
\* read past the last column and raised.
C29_Witness ==
    /\ op = "vimz_resize" /\ pc = "failed"
    /\ arg.new_width = image.width /\ arg.new_height < image.height
    /\ ResizeBHigh(image.width, arg.new_width, arg.new_width - 1) = image.width
    /\ \A i \in 0..(arg.new_height - 1) :
          ResizeBHigh(image.height, arg.new_height, i) <= image.height - 1

\* A strict downscale in both dimensions has returned its buffer, its last
\* cell sampling the last row and column of the source.
C29_DownscaleReached ==
    /\ op = "vimz_resize" /\ pc = "done"
    /\ arg.new_width < image.width /\ arg.new_height < image.height
    /\ ResizeBHigh(image.width, arg.new_width, arg.new_width - 1) = image.width - 1
    /\ ResizeBHigh(image.height, arg.new_height, arg.new_height - 1) = image.height - 1

-----------------------------------------------------------------------------
(* Properties of the runs, checked under SpecRun (second part).            *)

\* C30: for offsets with crop_x >= 0 and 0 <= crop_y < 4096 both offsets are
\* recovered from info (crop_x = info div 2^24, crop_y = (info mod 2^24) div
\* 2^12), so no other such pair yields the same info; the script accepts a
\* crop_y of 4096 or more when the image is tall enough, and the offsets
\* (0, 4096) yield 2^24, the info of (1, 0).
C30_InfoInjective ==
    Built("vimz_crop")
    => /\ (params.crop_x >= 0 /\ 0 <= params.crop_y /\ params.crop_y < 4096)
          => /\ envelope.info \div 2^24 = params.crop_x
             /\ (envelope.info % 2^24) \div 2^12 = params.crop_y
             /\ \A x \in RunOffsetsX, y \in RunOffsetsY :
                   (y < 4096 /\ x * 2^24 + y * 2^12 = envelope.info)
                   => (x = params.crop_x /\ y = params.crop_y)
       /\ (params.crop_x = 0 /\ params.crop_y = 4096)
          => /\ envelope.info = 2^24
             /\ envelope.info = 1 * 2^24 + 0 * 2^12
       /\ (params.crop_x = 1 /\ params.crop_y = 0) => envelope.info = 2^24

\* C30 witness: a crop run with the offsets (0, 4096) passed the size check
\* and wrote an envelope whose info is 2^24.
C30_Witness ==
    /\ Built("vimz_crop") /\ file = "written" /\ exit = 0
    /\ params.crop_x = 0 /\ params.crop_y = 4096
    /\ envelope.info = 2^24

\* A crop run with the offsets (1, 0) wrote an envelope with the same info.
C30_CollidingRunReached ==
    /\ Built("vimz_crop") /\ file = "written" /\ exit = 0
    /\ params.crop_x = 1 /\ params.crop_y = 0
    /\ envelope.info = 2^24

====
